---- MODULE Spec2Model ----
\* Model of backend/onyx/file_processing/unstructured.py: the adapter that
\* resolves partition parameters from the environment, keeps the API key in the
\* key-value store and converts a file to text through the remote service.
EXTENDS Integers, Sequences, FiniteSets, TLC

VARIABLES
    environ,          \* os.environ: a function from the names that are set to their values
    kv_store,         \* the key-value store: a function from stored keys to values
    pc,               \* position of the unstructured_to_text call
    file_pos,         \* position of the caller's file handle
    partition_params, \* local partition_params of unstructured_to_text
    warnings,         \* logger.warning records, in order
    req,              \* local req of unstructured_to_text
    client_kwargs,    \* local client_kwargs of unstructured_to_text
    response,         \* local response of unstructured_to_text
    result,           \* what the call returned
    error,            \* the exception that left the call
    requests_sent,    \* number of requests handed to the remote service
    seek_done,        \* whether file.seek(0, 0) has run in this call
    failed_at,        \* the step in which the call failed
    kv_log,           \* the credential operations performed, in order
    last_get          \* outcome of the most recent get_unstructured_api_key

vars == <<environ, kv_store, pc, file_pos, partition_params, warnings, req,
          client_kwargs, response, result, error, requests_sent, seek_done,
          failed_at, kv_log, last_get>>

callVars == <<pc, file_pos, partition_params, warnings, req, client_kwargs,
              response, result, error, requests_sent, seek_done, failed_at>>

-----------------------------------------------------------------------------
\* Bounds of the model.

\* Largest number of environment variables set at once.
MaxEnvSet == 2
\* Longest element list in a response.
MaxElements == 2
\* Length of the file in bytes.
MaxFileLen == 2
\* Longest sequence of credential operations.
MaxOps == 4

-----------------------------------------------------------------------------
\* Strings are sequences of one-character strings.

s_empty == <<>>
s_blank == <<" ">>
s_1 == <<"1">>
s_true == <<"t", "r", "u", "e">>
s_TRUE == <<"T", "R", "U", "E">>
s_yes == <<"y", "e", "s">>
s_Yes == <<"Y", "e", "s">>
s_true_padded == <<" ", "t", "r", "u", "e", " ">>
s_false == <<"f", "a", "l", "s", "e">>
s_fast == <<"f", "a", "s", "t">>
s_hi_res == <<"h", "i", "_", "r", "e", "s">>
s_HI_RES_padded == <<" ", "H", "I", "_", "R", "E", "S", " ">>
s_auto == <<"a", "u", "t", "o">>
s_ocr_only == <<"o", "c", "r", "_", "o", "n", "l", "y">>
s_bogus == <<"b", "o", "g", "u", "s">>
s_10 == <<"1", "0">>
s_minus3_padded == <<" ", "-", "3", " ">>
s_abc == <<"a", "b", "c">>
s_en == <<"e", "n">>
s_en_fr == <<"e", "n", ",", " ", "f", "r", " ", ",">>
s_comma == <<",">>
s_modelX == <<"m", "X">>
s_modelX_padded == <<" ", "m", "X", " ">>
s_url == <<"u">>
s_url_padded == <<" ", "u", " ">>

UpperChars == <<"A", "B", "C", "D", "E", "F", "G", "H", "I", "J", "K", "L", "M",
                "N", "O", "P", "Q", "R", "S", "T", "U", "V", "W", "X", "Y", "Z">>
LowerChars == <<"a", "b", "c", "d", "e", "f", "g", "h", "i", "j", "k", "l", "m",
                "n", "o", "p", "q", "r", "s", "t", "u", "v", "w", "x", "y", "z">>
DigitChars == <<"0", "1", "2", "3", "4", "5", "6", "7", "8", "9">>

IsSpace(c) == c \in {" ", "\t", "\n"}

\* str.lower()
lower_char(c) ==
    IF \E i \in 1..Len(UpperChars) : UpperChars[i] = c
    THEN LowerChars[CHOOSE i \in 1..Len(UpperChars) : UpperChars[i] = c]
    ELSE c

lower(s) == [i \in 1..Len(s) |-> lower_char(s[i])]

\* str.strip()
strip(s) ==
    LET keep == {i \in 1..Len(s) : ~IsSpace(s[i])}
    IN  IF keep = {} THEN <<>>
        ELSE SubSeq(s, CHOOSE i \in keep : \A j \in keep : i <= j,
                       CHOOSE i \in keep : \A j \in keep : i >= j)

\* str.split(c) for a one-character separator
RECURSIVE split(_, _)
split(s, c) ==
    IF \A i \in 1..Len(s) : s[i] # c THEN <<s>>
    ELSE LET i == CHOOSE k \in 1..Len(s) :
                      s[k] = c /\ \A j \in 1..(k - 1) : s[j] # c
         IN  <<SubSeq(s, 1, i - 1)>> \o split(SubSeq(s, i + 1, Len(s)), c)

\* [item.strip() for item in items if item.strip()]
strip_items(items) ==
    SelectSeq([i \in 1..Len(items) |-> strip(items[i])], LAMBDA x : Len(x) > 0)

IsDigit(c) == \E i \in 1..Len(DigitChars) : DigitChars[i] = c
DigitValue(c) == (CHOOSE i \in 1..Len(DigitChars) : DigitChars[i] = c) - 1

RECURSIVE DigitsValue(_)
DigitsValue(s) ==
    IF Len(s) = 0 THEN 0
    ELSE 10 * DigitsValue(SubSeq(s, 1, Len(s) - 1)) + DigitValue(s[Len(s)])

\* int(s): surrounding whitespace and one sign are accepted; anything else
\* than decimal digits raises ValueError.
int(s) ==
    LET t      == strip(s)
        signed == Len(t) > 0 /\ t[1] \in {"+", "-"}
        digits == IF signed THEN SubSeq(t, 2, Len(t)) ELSE t
        valid  == Len(digits) > 0 /\ \A i \in 1..Len(digits) : IsDigit(digits[i])
    IN  IF ~valid THEN [raised |-> "ValueError", value |-> 0]
        ELSE [raised |-> "",
              value  |-> IF signed /\ t[1] = "-" THEN 0 - DigitsValue(digits)
                         ELSE DigitsValue(digits)]

TrueWords == {s_1, s_true, s_yes}

-----------------------------------------------------------------------------
\* The environment.

UNSTRUCTURED_SERVER_URL_ENV == "UNSTRUCTURED_API_URL"
UNSTRUCTURED_STRATEGY_ENV == "UNSTRUCTURED_STRATEGY"
UNSTRUCTURED_HI_RES_MODEL_ENV == "UNSTRUCTURED_HI_RES_MODEL_NAME"
VALID_UNSTRUCTURED_STRATEGIES == {s_fast, s_hi_res, s_auto, s_ocr_only}

BoolEnvVars == {"UNSTRUCTURED_COORDINATES", "UNSTRUCTURED_INCLUDE_PAGE_BREAKS",
                "UNSTRUCTURED_UNIQUE_ELEMENT_IDS", "UNSTRUCTURED_MULTIPAGE_SECTIONS",
                "UNSTRUCTURED_OVERLAP_ALL", "UNSTRUCTURED_INCLUDE_SLIDE_NOTES",
                "UNSTRUCTURED_PDF_INFER_TABLE_STRUCTURE"}
IntEnvVars == {"UNSTRUCTURED_COMBINE_UNDER_N_CHARS", "UNSTRUCTURED_MAX_CHARACTERS",
               "UNSTRUCTURED_NEW_AFTER_N_CHARS", "UNSTRUCTURED_OVERLAP"}
ListEnvVars == {"UNSTRUCTURED_LANGUAGES", "UNSTRUCTURED_SKIP_INFER_TABLE_TYPES",
                "UNSTRUCTURED_EXTRACT_IMAGE_BLOCK_TYPES"}
EnvVars == BoolEnvVars \cup IntEnvVars \cup ListEnvVars
             \cup {UNSTRUCTURED_STRATEGY_ENV, UNSTRUCTURED_HI_RES_MODEL_ENV,
                   UNSTRUCTURED_SERVER_URL_ENV}

\* The values a variable is given in the model.
EnvValues(v) ==
    IF v \in BoolEnvVars
        THEN {s_1, s_TRUE, s_Yes, s_true_padded, s_false, s_empty}
    ELSE IF v \in IntEnvVars
        THEN {s_10, s_minus3_padded, s_abc, s_blank, s_empty}
    ELSE IF v \in ListEnvVars
        THEN {s_en_fr, s_en, s_comma, s_blank, s_empty}
    ELSE IF v = UNSTRUCTURED_STRATEGY_ENV
        THEN {s_fast, s_hi_res, s_HI_RES_padded, s_auto, s_ocr_only, s_bogus, s_empty}
    ELSE IF v = UNSTRUCTURED_HI_RES_MODEL_ENV
        THEN {s_modelX, s_modelX_padded, s_blank, s_empty}
    ELSE {s_url, s_url_padded, s_empty}

RECURSIVE EnvsOver(_)
EnvsOver(D) ==
    IF D = {} THEN {<<>>}
    ELSE LET v == CHOOSE x \in D : TRUE
         IN  {(v :> val) @@ e : val \in EnvValues(v), e \in EnvsOver(D \ {v})}

\* The sets of at most n names of V: the variables an environment sets.
EnvDomains(V, n) == {S \in SUBSET V : Cardinality(S) <= n}

\* os.environ.get(name) is None
IsUnset(env, name) == name \notin DOMAIN env
\* os.environ.get(name, "")
environ_get(env, name) == IF name \in DOMAIN env THEN env[name] ELSE s_empty

-----------------------------------------------------------------------------
\* Partition parameter resolution.

\* _get_bool_env
_get_bool_env(env, var_name, default) ==
    IF IsUnset(env, var_name) THEN default
    ELSE lower(strip(env[var_name])) \in TrueWords

\* _get_list_env: None is the empty list here, both are falsy to the callers
_get_list_env(env, var_name) ==
    IF IsUnset(env, var_name) \/ Len(env[var_name]) = 0 THEN <<>>
    ELSE strip_items(split(env[var_name], ","))

\* A resolution that takes any non-empty strategy as it is.
ResolveStrategy_unvalidated(env) ==
    LET strategy == lower(strip(environ_get(env, UNSTRUCTURED_STRATEGY_ENV)))
    IN  IF Len(strategy) = 0
            THEN [strategy |-> s_fast, warnings |-> <<>>]
        ELSE [strategy |-> strategy, warnings |-> <<>>]

\* The strategy and the warning of lines 70-77.
ResolveStrategy(env) ==
    LET strategy == lower(strip(environ_get(env, UNSTRUCTURED_STRATEGY_ENV)))
    IN  IF Len(strategy) = 0
            THEN [strategy |-> s_fast, warnings |-> <<>>]
        ELSE IF strategy \notin VALID_UNSTRUCTURED_STRATEGIES
            THEN [strategy |-> s_fast, warnings |-> <<"invalid_strategy">>]
        ELSE [strategy |-> strategy, warnings |-> <<>>]

\* Lines 82-83: the key is written only when the flag is true.
CoordinatesParam(env) ==
    IF _get_bool_env(env, "UNSTRUCTURED_COORDINATES", TRUE)
    THEN "coordinates" :> TRUE
    ELSE <<>>

\* Lines 88-89: any non-empty value writes the key.
LanguagesParam(env) ==
    IF Len(environ_get(env, "UNSTRUCTURED_LANGUAGES")) > 0
    THEN "languages" :> strip_items(split(env["UNSTRUCTURED_LANGUAGES"], ","))
    ELSE <<>>

\* Lines 92-99: one integer option; int() raises on a value it cannot parse.
IntParam(env, var_name, key) ==
    IF Len(environ_get(env, var_name)) > 0
    THEN LET n == int(env[var_name])
         IN  IF n.raised # "" THEN [raised |-> n.raised, params |-> <<>>]
             ELSE [raised |-> "", params |-> key :> n.value]
    ELSE [raised |-> "", params |-> <<>>]

\* Lines 102-103
SlideNotesParam(env) ==
    IF ~IsUnset(env, "UNSTRUCTURED_INCLUDE_SLIDE_NOTES")
    THEN "include_slide_notes" :>
             (lower(strip(env["UNSTRUCTURED_INCLUDE_SLIDE_NOTES"])) \in TrueWords)
    ELSE <<>>

\* Lines 106-110: a list option is written only when it has an item.
ListParam(env, var_name, key) ==
    LET items == _get_list_env(env, var_name)
    IN  IF Len(items) > 0 THEN key :> items ELSE <<>>

\* A resolution that applies the model name whatever the strategy is.
HiResModelParam_any_strategy(env, strategy) ==
    LET hi_res_model == strip(environ_get(env, UNSTRUCTURED_HI_RES_MODEL_ENV))
    IN  IF Len(hi_res_model) > 0
        THEN [params |-> "hi_res_model_name" :> hi_res_model, warnings |-> <<>>]
        ELSE [params |-> <<>>, warnings |-> <<>>]

\* Lines 112-120
HiResModelParam(env, strategy) ==
    LET hi_res_model == strip(environ_get(env, UNSTRUCTURED_HI_RES_MODEL_ENV))
    IN  IF Len(hi_res_model) > 0
        THEN IF strategy = s_hi_res
             THEN [params |-> "hi_res_model_name" :> hi_res_model, warnings |-> <<>>]
             ELSE [params |-> <<>>, warnings |-> <<"hi_res_model_ignored">>]
        ELSE [params |-> <<>>, warnings |-> <<>>]

\* _get_partition_params: the mapping it returns or the exception it raises,
\* and the warnings it logged on the way.
_get_partition_params(env) ==
    LET st       == ResolveStrategy(env)
        combine  == IntParam(env, "UNSTRUCTURED_COMBINE_UNDER_N_CHARS", "combine_under_n_chars")
        maxch    == IntParam(env, "UNSTRUCTURED_MAX_CHARACTERS", "max_characters")
        newafter == IntParam(env, "UNSTRUCTURED_NEW_AFTER_N_CHARS", "new_after_n_chars")
        overlap  == IntParam(env, "UNSTRUCTURED_OVERLAP", "overlap")
        hi       == HiResModelParam(env, st.strategy)
        raised   == IF combine.raised # "" THEN combine.raised
                    ELSE IF maxch.raised # "" THEN maxch.raised
                    ELSE IF newafter.raised # "" THEN newafter.raised
                    ELSE overlap.raised
    IN  IF raised # ""
        THEN [raised |-> raised, params |-> <<>>, warnings |-> st.warnings]
        ELSE [raised   |-> "",
              params   |->
                  ("strategy" :> st.strategy)
                  @@ CoordinatesParam(env)
                  @@ ("include_page_breaks" :>
                          _get_bool_env(env, "UNSTRUCTURED_INCLUDE_PAGE_BREAKS", FALSE))
                  @@ ("unique_element_ids" :>
                          _get_bool_env(env, "UNSTRUCTURED_UNIQUE_ELEMENT_IDS", TRUE))
                  @@ LanguagesParam(env)
                  @@ ("multipage_sections" :>
                          _get_bool_env(env, "UNSTRUCTURED_MULTIPAGE_SECTIONS", TRUE))
                  @@ combine.params @@ maxch.params @@ newafter.params @@ overlap.params
                  @@ ("overlap_all" :>
                          _get_bool_env(env, "UNSTRUCTURED_OVERLAP_ALL", FALSE))
                  @@ SlideNotesParam(env)
                  @@ ("pdf_infer_table_structure" :>
                          _get_bool_env(env, "UNSTRUCTURED_PDF_INFER_TABLE_STRUCTURE", TRUE))
                  @@ ListParam(env, "UNSTRUCTURED_SKIP_INFER_TABLE_TYPES",
                               "skip_infer_table_types")
                  @@ ListParam(env, "UNSTRUCTURED_EXTRACT_IMAGE_BLOCK_TYPES",
                               "extract_image_block_types")
                  @@ hi.params,
              warnings |-> st.warnings \o hi.warnings]

\* get_unstructured_server_url: the URL, or the empty string for None
get_unstructured_server_url(env) == strip(environ_get(env, UNSTRUCTURED_SERVER_URL_ENV))

-----------------------------------------------------------------------------
\* The key-value store.

KV_UNSTRUCTURED_API_KEY == "unstructured_api_key"
ApiKeys == {"abc", "xyz"}

\* kv_store.load: the value, or KvKeyNotFoundError when the key is absent
kv_load(store, key) ==
    IF key \in DOMAIN store
    THEN [raised |-> "", value |-> <<store[key]>>]
    ELSE [raised |-> "KvKeyNotFoundError", value |-> <<>>]

\* kv_store.store
kv_put(store, key, value) == (key :> value) @@ store

\* kv_store.delete
kv_delete(store, key) == [k \in DOMAIN store \ {key} |-> store[k]]

\* A reader that lets KvKeyNotFoundError through.
get_unstructured_api_key_uncaught(store) == kv_load(store, KV_UNSTRUCTURED_API_KEY)

\* get_unstructured_api_key: <<key>> for a key, <<>> for None
get_unstructured_api_key(store) ==
    LET loaded == kv_load(store, KV_UNSTRUCTURED_API_KEY)
    IN  IF loaded.raised = "KvKeyNotFoundError"
        THEN [raised |-> "", value |-> <<>>]
        ELSE loaded

-----------------------------------------------------------------------------
\* The remote service and the conversion of one file.

HTTP_OK == 200
StatusCodes == {HTTP_OK, 500}
FILE_NAME == "doc.pdf"
FileContent == [i \in 1..MaxFileLen |-> i]
ElementTexts == {<<"H", "i">>, <<"W">>, <<>>}
ElementDicts == {[type |-> "NarrativeText", text |-> t] : t \in ElementTexts}

RECURSIVE SeqsUpTo(_, _)
SeqsUpTo(S, n) ==
    IF n = 0 THEN {<<>>}
    ELSE SeqsUpTo(S, n - 1)
           \cup {Append(q, x) : q \in {r \in SeqsUpTo(S, n - 1) : Len(r) = n - 1}, x \in S}

\* response.elements: absent (None) or a list of element dicts
ElementFields ==
    {[present |-> FALSE, items |-> <<>>]}
      \cup {[present |-> TRUE, items |-> q] : q \in SeqsUpTo(ElementDicts, MaxElements)}

Responses == [status_code : StatusCodes, elements : ElementFields]

\* What request construction can raise: file.read() or the validation of the
\* parameters by the SDK's models.
BuildExceptions == {"OSError", "ValidationError"}
\* What the SDK's partition call can raise.
SendExceptions == {"SDKError"}

NoError == [type |-> "", status_code |-> 0]
Raised(type) == [type |-> type, status_code |-> 0]
NoRequest == [built |-> FALSE, content |-> <<>>, file_name |-> "", params |-> <<>>]
NoResponse == [received |-> FALSE, status_code |-> 0,
               elements |-> [present |-> FALSE, items |-> <<>>]]
NoResult == [returned |-> FALSE, text |-> <<>>]
NoGet == [called |-> FALSE, raised |-> "", value |-> <<>>]

\* file.read() with the handle at position pos
file_read(pos) == SubSeq(FileContent, pos + 1, Len(FileContent))

\* dict_to_elements: iterates the list it is given, so None raises TypeError
dict_to_elements(elements) ==
    IF ~elements.present THEN [raised |-> "TypeError", elements |-> <<>>]
    ELSE [raised   |-> "",
          elements |-> [i \in 1..Len(elements.items) |->
                           [category |-> elements.items[i].type,
                            text     |-> elements.items[i].text]]]

\* str(el)
element_str(el) == el.text

\* A join that loses the last string.
RECURSIVE str_join_drop_last(_, _)
str_join_drop_last(sep, strs) ==
    IF Len(strs) = 0 THEN <<>>
    ELSE IF Len(strs) = 1 THEN strs[1]
    ELSE IF Len(strs) = 2 THEN strs[1]
    ELSE strs[1] \o sep \o str_join_drop_last(sep, Tail(strs))

\* sep.join(strs)
RECURSIVE str_join(_, _)
str_join(sep, strs) ==
    IF Len(strs) = 0 THEN <<>>
    ELSE IF Len(strs) = 1 THEN strs[1]
    ELSE strs[1] \o sep \o str_join(sep, Tail(strs))

Separator == <<"\n", "\n">>

\* unstructured_to_text, line 157
GetPartitionParamsStep ==
    /\ pc = "start"
    /\ LET r == _get_partition_params(environ)
       IN  /\ warnings' = warnings \o r.warnings
           /\ IF r.raised # ""
              THEN /\ pc' = "failed"
                   /\ failed_at' = "params"
                   /\ error' = Raised(r.raised)
                   /\ UNCHANGED partition_params
              ELSE /\ pc' = "params_resolved"
                   /\ partition_params' = r.params
                   /\ UNCHANGED <<failed_at, error>>
    /\ UNCHANGED <<environ, kv_store, file_pos, req, client_kwargs, response, result,
                   requests_sent, seek_done, kv_log, last_get>>

\* unstructured_to_text, line 158: _sdk_partition_request
SdkPartitionRequest ==
    /\ pc = "params_resolved"
    /\ seek_done' = TRUE
    /\ \/ /\ req' = [built |-> TRUE, content |-> file_read(0),
                     file_name |-> FILE_NAME, params |-> partition_params]
          /\ file_pos' = Len(FileContent)
          /\ pc' = "request_built"
          /\ UNCHANGED <<error, failed_at>>
       \/ \E e \in BuildExceptions :
             /\ file_pos' = IF e = "OSError" THEN 0 ELSE Len(FileContent)
             /\ error' = Raised(e)
             /\ failed_at' = "build"
             /\ pc' = "failed"
             /\ UNCHANGED req
    /\ UNCHANGED <<environ, kv_store, partition_params, warnings, client_kwargs,
                   response, result, requests_sent, kv_log, last_get>>

\* unstructured_to_text, lines 160-170
ClientConfig ==
    /\ pc = "request_built"
    /\ LET api_key    == get_unstructured_api_key(kv_store).value
           server_url == get_unstructured_server_url(environ)
       IN  client_kwargs' =
               (IF Len(api_key) > 0 /\ Len(api_key[1]) > 0
                THEN "api_key_auth" :> api_key[1] ELSE <<>>)
               @@ (IF Len(server_url) > 0 THEN "server_url" :> server_url ELSE <<>>)
    /\ pc' = "client_ready"
    /\ UNCHANGED <<environ, kv_store, file_pos, partition_params, warnings, req,
                   response, result, error, requests_sent, seek_done, failed_at,
                   kv_log, last_get>>

\* A send that tries once more after a failure.
Partition_retry ==
    /\ pc = "client_ready"
    /\ \/ \E r \in Responses :
             /\ requests_sent' = requests_sent + 1
             /\ response' = [received |-> TRUE, status_code |-> r.status_code,
                             elements |-> r.elements]
             /\ pc' = "responded"
             /\ UNCHANGED <<error, failed_at>>
       \/ \E e \in SendExceptions :
             /\ requests_sent' = requests_sent + 2
             /\ error' = Raised(e)
             /\ failed_at' = "send"
             /\ pc' = "failed"
             /\ UNCHANGED response
    /\ UNCHANGED <<environ, kv_store, file_pos, partition_params, warnings, req,
                   client_kwargs, result, seek_done, kv_log, last_get>>

\* unstructured_to_text, line 172: the one request to the remote service
Partition ==
    /\ pc = "client_ready"
    /\ requests_sent' = requests_sent + 1
    /\ \/ \E r \in Responses :
             /\ response' = [received |-> TRUE, status_code |-> r.status_code,
                             elements |-> r.elements]
             /\ pc' = "responded"
             /\ UNCHANGED <<error, failed_at>>
       \/ \E e \in SendExceptions :
             /\ error' = Raised(e)
             /\ failed_at' = "send"
             /\ pc' = "failed"
             /\ UNCHANGED response
    /\ UNCHANGED <<environ, kv_store, file_pos, partition_params, warnings, req,
                   client_kwargs, result, seek_done, kv_log, last_get>>

\* unstructured_to_text, lines 173-180
HandleResponse ==
    /\ pc = "responded"
    /\ LET converted == dict_to_elements(response.elements)
       IN  IF converted.raised # ""
           THEN /\ error' = Raised(converted.raised)
                /\ failed_at' = "response"
                /\ pc' = "failed"
                /\ UNCHANGED result
           ELSE IF response.status_code # HTTP_OK
           THEN /\ error' = [type |-> "ValueError", status_code |-> response.status_code]
                /\ failed_at' = "response"
                /\ pc' = "failed"
                /\ UNCHANGED result
           ELSE /\ result' =
                       [returned |-> TRUE,
                        text     |-> str_join(Separator,
                                         [i \in 1..Len(converted.elements) |->
                                             element_str(converted.elements[i])])]
                /\ pc' = "returned"
                /\ UNCHANGED <<error, failed_at>>
    /\ UNCHANGED <<environ, kv_store, file_pos, partition_params, warnings, req,
                   client_kwargs, response, requests_sent, seek_done, kv_log, last_get>>

-----------------------------------------------------------------------------
\* Credential management.

\* update_unstructured_api_key
UpdateApiKey(api_key) ==
    /\ Len(kv_log) < MaxOps
    /\ kv_store' = kv_put(kv_store, KV_UNSTRUCTURED_API_KEY, api_key)
    /\ kv_log' = Append(kv_log, [op |-> "update", key |-> api_key])
    /\ UNCHANGED <<environ, last_get>>
    /\ UNCHANGED callVars

\* delete_unstructured_api_key
DeleteApiKey ==
    /\ Len(kv_log) < MaxOps
    /\ kv_store' = kv_delete(kv_store, KV_UNSTRUCTURED_API_KEY)
    /\ kv_log' = Append(kv_log, [op |-> "delete", key |-> ""])
    /\ UNCHANGED <<environ, last_get>>
    /\ UNCHANGED callVars

\* get_unstructured_api_key
GetApiKey ==
    /\ Len(kv_log) < MaxOps
    /\ LET r == get_unstructured_api_key(kv_store)
       IN  last_get' = [called |-> TRUE, raised |-> r.raised, value |-> r.value]
    /\ kv_log' = Append(kv_log, [op |-> "get", key |-> ""])
    /\ UNCHANGED <<environ, kv_store>>
    /\ UNCHANGED callVars

-----------------------------------------------------------------------------
\* Specifications.

CallIdle ==
    /\ pc = "start"
    /\ partition_params = <<>>
    /\ warnings = <<>>
    /\ req = NoRequest
    /\ client_kwargs = <<>>
    /\ response = NoResponse
    /\ result = NoResult
    /\ error = NoError
    /\ requests_sent = 0
    /\ seek_done = FALSE
    /\ failed_at = ""

\* The variables the call reads beyond the partition options' shared parsing.
CallEnvVars == {UNSTRUCTURED_STRATEGY_ENV, UNSTRUCTURED_HI_RES_MODEL_ENV,
                UNSTRUCTURED_SERVER_URL_ENV, "UNSTRUCTURED_OVERLAP"}

\* One unstructured_to_text call on a file handle at any position.
Init ==
    /\ \E D \in EnvDomains(CallEnvVars, MaxEnvSet) : environ \in EnvsOver(D)
    /\ kv_store \in {<<>>, KV_UNSTRUCTURED_API_KEY :> "abc"}
    /\ file_pos \in 0..MaxFileLen
    /\ CallIdle
    /\ kv_log = <<>>
    /\ last_get = NoGet

Next ==
    \/ GetPartitionParamsStep
    \/ SdkPartitionRequest
    \/ ClientConfig
    \/ Partition
    \/ HandleResponse

Spec == Init /\ [][Next]_vars

\* Parameter resolution alone, over every environment variable.
InitParams ==
    /\ \E D \in EnvDomains(EnvVars, MaxEnvSet) : environ \in EnvsOver(D)
    /\ kv_store = <<>>
    /\ file_pos = 0
    /\ CallIdle
    /\ kv_log = <<>>
    /\ last_get = NoGet

NextParams == GetPartitionParamsStep

SpecParams == InitParams /\ [][NextParams]_vars

\* The credential operations in any order, on a store that holds no key.
InitKV ==
    /\ environ = <<>>
    /\ kv_store = <<>>
    /\ file_pos = 0
    /\ CallIdle
    /\ kv_log = <<>>
    /\ last_get = NoGet

NextKV ==
    \/ \E k \in ApiKeys : UpdateApiKey(k)
    \/ DeleteApiKey
    \/ GetApiKey

SpecKV == InitKV /\ [][NextKV]_vars

-----------------------------------------------------------------------------
\* Properties.

Warned(w) == \E i \in 1..Len(warnings) : warnings[i] = w
Resolved == pc = "params_resolved"
Ended == pc \in {"failed", "returned"}

\* C1: for every environment, parameter resolution completes and returns a
\* mapping; no value of a variable makes the resolution, and with it the
\* call, fail.
C1_ResolutionNeverFails == pc = "failed" => failed_at # "params"

\* The key set by the last update or delete of a log, <<>> when there is none
\* or it was a delete.
RECURSIVE LastMutation(_)
LastMutation(log) ==
    IF Len(log) = 0 THEN <<>>
    ELSE LET l == log[Len(log)]
         IN  IF l.op = "update" THEN <<l.key>>
             ELSE IF l.op = "delete" THEN <<>>
             ELSE LastMutation(SubSeq(log, 1, Len(log) - 1))

\* C2: after any sequence of updates and deletes, get_api_key returns the key
\* of the most recent update when no delete followed it and none, without an
\* error, when the last mutation was a delete or no key was ever stored; the
\* get leaves the store as it was.
C2_GetReturnsLastUpdate ==
    [][(kv_log' # kv_log /\ kv_log'[Len(kv_log')].op = "get")
          => /\ last_get'.called
             /\ last_get'.raised = ""
             /\ last_get'.value = LastMutation(kv_log)
             /\ kv_store' = kv_store]_vars

C2_Witness ==
    /\ Len(kv_log) = 4
    /\ kv_log[1].op = "update"
    /\ kv_log[2].op = "get"
    /\ kv_log[3].op = "delete"
    /\ kv_log[4].op = "get"
    /\ last_get.called
    /\ last_get.value = <<>>

\* C3: a response with a status code other than 200 makes the call fail with
\* the error that carries that status code, whatever its elements field
\* holds, and no text is returned.
C3_Non200FailsWithStatus ==
    (Ended /\ response.received /\ response.status_code # HTTP_OK)
        => /\ pc = "failed"
           /\ error.type = "ValueError"
           /\ error.status_code = response.status_code
           /\ ~result.returned

\* Where the i-th text starts in the joined string.
RECURSIVE Offset(_, _)
Offset(texts, i) ==
    IF i = 1 THEN 0 ELSE Offset(texts, i - 1) + Len(texts[i - 1]) + Len(Separator)

\* C4: on status 200 with elements e1..en the call returns their string forms
\* in order, each once, with "\n\n" between neighbours and nowhere else: one
\* element gives its string form alone, no element gives the empty string.
C4_JoinInOrder ==
    (Ended /\ response.received /\ response.status_code = HTTP_OK
           /\ response.elements.present)
        => LET items == response.elements.items
               n     == Len(items)
               texts == [i \in 1..n |-> items[i].text]
               out   == result.text
           IN  /\ pc = "returned"
               /\ result.returned
               /\ Len(out) = IF n = 0 THEN 0
                             ELSE Offset(texts, n) + Len(texts[n])
               /\ \A i \in 1..n :
                     SubSeq(out, Offset(texts, i) + 1,
                            Offset(texts, i) + Len(texts[i])) = texts[i]
               /\ \A i \in 1..(n - 1) :
                     SubSeq(out, Offset(texts, i) + Len(texts[i]) + 1,
                            Offset(texts, i + 1)) = Separator

C4_Witness ==
    /\ pc = "returned"
    /\ response.status_code = HTTP_OK
    /\ Len(response.elements.items) = 2
    /\ response.elements.items[1].text = <<"H", "i">>
    /\ response.elements.items[2].text = <<"W">>
    /\ result.text = <<"H", "i", "\n", "\n", "W">>

\* The STRATEGY variable as the resolution reads it: trimmed and lower-cased.
StrategyRead == lower(strip(environ_get(environ, UNSTRUCTURED_STRATEGY_ENV)))

\* C5 as stated: the resolved strategy is one of the valid ones, and when
\* STRATEGY is unset or holds a value outside the set, the strategy is "fast"
\* and a warning is logged, in the unset case as in the invalid one.
C5_WarningWhenUnsetOrInvalid ==
    Resolved
        => /\ partition_params["strategy"] \in VALID_UNSTRUCTURED_STRATEGIES
           /\ (IsUnset(environ, UNSTRUCTURED_STRATEGY_ENV)
                 \/ StrategyRead \notin VALID_UNSTRUCTURED_STRATEGIES)
                => /\ partition_params["strategy"] = s_fast
                   /\ Warned("invalid_strategy")

\* C5 amended: the resolved strategy is one of the valid ones; it is "fast"
\* when STRATEGY is unset, blank or, trimmed and lower-cased, outside the
\* set, and the value read otherwise; the warning is logged exactly in the
\* invalid case, a non-blank value outside the set, and not when STRATEGY is
\* unset or blank.
C5_FallbackWarnsOnlyWhenInvalid ==
    /\ Resolved
         => /\ partition_params["strategy"] \in VALID_UNSTRUCTURED_STRATEGIES
            /\ partition_params["strategy"] =
                  IF StrategyRead \in VALID_UNSTRUCTURED_STRATEGIES
                  THEN StrategyRead ELSE s_fast
    /\ pc # "start"
         => (Warned("invalid_strategy")
               <=> /\ Len(StrategyRead) > 0
                   /\ StrategyRead \notin VALID_UNSTRUCTURED_STRATEGIES)

C5_Witness ==
    /\ Resolved
    /\ IsUnset(environ, UNSTRUCTURED_STRATEGY_ENV)
    /\ partition_params["strategy"] = s_fast
    /\ ~Warned("invalid_strategy")

\* The boolean options with a default: variable, key, default.
BoolOptions ==
    {<<"UNSTRUCTURED_COORDINATES", "coordinates", TRUE>>,
     <<"UNSTRUCTURED_INCLUDE_PAGE_BREAKS", "include_page_breaks", FALSE>>,
     <<"UNSTRUCTURED_UNIQUE_ELEMENT_IDS", "unique_element_ids", TRUE>>,
     <<"UNSTRUCTURED_MULTIPAGE_SECTIONS", "multipage_sections", TRUE>>,
     <<"UNSTRUCTURED_OVERLAP_ALL", "overlap_all", FALSE>>,
     <<"UNSTRUCTURED_PDF_INFER_TABLE_STRUCTURE", "pdf_infer_table_structure", TRUE>>}

\* C6: the mapping holds a key for every boolean option with a default; its
\* value is the default when the variable is unset and otherwise true exactly
\* for "1", "true", "yes" in any case (surrounding whitespace disregarded), so
\* that COORDINATES="false" gives coordinates = false in the mapping.
C6_EveryBooleanResolved ==
    Resolved
        => \A o \in BoolOptions :
              /\ o[2] \in DOMAIN partition_params
              /\ partition_params[o[2]] =
                    IF IsUnset(environ, o[1]) THEN o[3]
                    ELSE \E w \in TrueWords : lower(strip(environ[o[1]])) = w

HiResModelSet == ~IsUnset(environ, UNSTRUCTURED_HI_RES_MODEL_ENV)
HiResModelRead == strip(environ_get(environ, UNSTRUCTURED_HI_RES_MODEL_ENV))

\* C7 as stated: the mapping has hi_res_model_name exactly when the resolved
\* strategy is hi_res and the variable is set to a non-blank value, its value
\* then the trimmed variable; under any other resolved strategy the key is
\* absent and a warning is logged when the variable is set.
C7_WarningWheneverSet ==
    Resolved
        => /\ "hi_res_model_name" \in DOMAIN partition_params
                <=> (partition_params["strategy"] = s_hi_res /\ Len(HiResModelRead) > 0)
           /\ "hi_res_model_name" \in DOMAIN partition_params
                => partition_params["hi_res_model_name"] = HiResModelRead
           /\ (partition_params["strategy"] # s_hi_res /\ HiResModelSet)
                => Warned("hi_res_model_ignored")

\* C7 amended: as stated, but the warning is logged exactly when the resolved
\* strategy is not hi_res and the variable is set to a non-blank value; a
\* variable set to an empty or blank value is treated as unset.
C7_WarningWhenNonBlank ==
    Resolved
        => /\ "hi_res_model_name" \in DOMAIN partition_params
                <=> (partition_params["strategy"] = s_hi_res /\ Len(HiResModelRead) > 0)
           /\ "hi_res_model_name" \in DOMAIN partition_params
                => partition_params["hi_res_model_name"] = HiResModelRead
           /\ Warned("hi_res_model_ignored")
                <=> (partition_params["strategy"] # s_hi_res /\ Len(HiResModelRead) > 0)

C7_Witness ==
    /\ Resolved
    /\ StrategyRead = s_bogus
    /\ partition_params["strategy"] = s_fast
    /\ HiResModelRead = s_modelX
    /\ "hi_res_model_name" \notin DOMAIN partition_params
    /\ Warned("hi_res_model_ignored")

\* C8: when LANGUAGES is set, languages is its comma-separated items in order,
\* trimmed, without empty items; when it is unset or yields no item the
\* mapping has no languages key.
C8_LanguagesOnlyWhenItems ==
    Resolved
        => LET items == strip_items(split(environ_get(environ, "UNSTRUCTURED_LANGUAGES"), ","))
           IN  IF ~IsUnset(environ, "UNSTRUCTURED_LANGUAGES") /\ Len(items) > 0
               THEN /\ "languages" \in DOMAIN partition_params
                    /\ partition_params["languages"] = items
               ELSE "languages" \notin DOMAIN partition_params

\* C9: one call sends at most one request; a call that failed in request
\* construction sent none and fails with the construction error itself; a
\* call that failed in the send or on the response sent exactly one.
C9_AtMostOneRequest ==
    /\ requests_sent <= 1
    /\ pc = "failed"
         => /\ failed_at \in {"params", "build"} => requests_sent = 0
            /\ failed_at = "build" => error.type \in BuildExceptions
            /\ failed_at \in {"send", "response"} => requests_sent = 1
    /\ pc = "returned" => requests_sent = 1

C9_Witness ==
    /\ pc = "failed"
    /\ failed_at = "send"
    /\ requests_sent = 1

\* C10: the handle is reset as the first step of the call, before the
\* parameters are resolved: a call that failed while resolving them leaves the
\* handle at the start, every call that ended later has reset it, and a
\* request that was built carries the whole file content.
C10_HandleResetFirst ==
    /\ (pc = "failed" /\ failed_at = "params") => file_pos = 0
    /\ (Ended /\ failed_at # "params") => seek_done
    /\ req.built => (seek_done /\ req.content = FileContent)

====
